---- MODULE Spec2Model ----
(***************************************************************************)
(* A model of src/src/model.js: the reactive key-value store returned by   *)
(* Model(), with its public operations set, get and when, the private      *)
(* helpers on, setObject, setKeyValue, debounce and allAreDefined, and the *)
(* host's timer queue that setTimeout(f, 0) feeds.                         *)
(*                                                                         *)
(* Every public call and every timer task is one action: JavaScript runs   *)
(* each of them to completion before anything else can run.  The events a  *)
(* handler produces while it runs (stores, listener calls, setTimeout      *)
(* calls, resolver runs, callback invocations, a thrown TypeError) are     *)
(* kept, in order, in the variable trace.                                  *)
(*                                                                         *)
(* Spec is one instance with callbacks that only take their arguments,     *)
(* FairSpec adds the host's promise to run every timer task, CallbackSpec  *)
(* adds callbacks that call set or throw, and TwoSpec adds a second        *)
(* instance made by another call of Model.                                 *)
(***************************************************************************)
EXTENDS Integers, Sequences, FiniteSets, TLC

\* ------------------------------------------------------------------ bounds

\* Defined values that set may store are 1..MaxVal.
MaxVal == 2
\* Public calls (set, get, when) in one behaviour.
MaxCalls == 3
\* Reactions registered with when in one behaviour.
MaxReactions == 2

\* ------------------------------------------------------------------ values

\* JavaScript's undefined, null, and a function inherited from
\* Object.prototype by the two plain objects `values` and `callbacks`.
Undefined == 0
Null == -1
NativeFunction == -2

DefinedVals == 1..MaxVal
\* What a caller passes to set.
Vals == {Undefined, Null} \cup DefinedVals

\* Property names used by the callers.  "toString" is a name that every
\* plain object `{}` inherits from Object.prototype.
Keys == {"a", "b", "toString"}
ObjectPrototypeKeys == {"toString"}

\* The arguments a caller passes as `dependencies`: a single string, or an
\* array of strings.
Str(k) == [type |-> "string", key |-> k, items |-> <<>>]
Arr(s) == [type |-> "array", key |-> "", items |-> s]
DependencyArgs ==
    {Str("a"), Str("toString")}
    \cup {Arr(<<>>), Arr(<<"a">>), Arr(<<"b">>), Arr(<<"a", "b">>),
          Arr(<<"b", "a">>), Arr(<<"a", "a">>), Arr(<<"a", "toString">>),
          Arr(<<"toString", "a">>)}

\* The objects a caller passes to set(object): the entries in the order
\* Object.keys lists them (insertion order for these names), keys distinct.
Entry(k, v) == [key |-> k, value |-> v]
Objects ==
    {<<>>}
    \cup {<<Entry("a", v)>> : v \in {Null, 1}}
    \cup {<<Entry("a", v), Entry("b", w)>> : v \in {1}, w \in {Undefined, 2}}
    \cup {<<Entry("b", v), Entry("a", w)>> : v \in {2}, w \in {Null, 1}}
    \cup {<<Entry("a", 1), Entry("toString", 1), Entry("b", 2)>>}

\* The callbacks fn passed to when.  Every fn records the arguments it is
\* invoked with; besides,
\*   Recorder      does nothing else,
\*   Setter(k, v)  is function () { if (model.get(k) !== v) model.set(k, v) },
\*   Thrower       throws.
Recorder == [kind |-> "record", key |-> "", val |-> Undefined]
Setter(k, v) == [kind |-> "set", key |-> k, val |-> v]
Thrower == [kind |-> "throw", key |-> "", val |-> Undefined]

\* The callbacks that do more than record, and the dependencies they are
\* registered with.
Callbacks == {Setter("a", MaxVal), Thrower}
CallbackDependencies == {Str("a")}

\* The keys set on a second instance, and the dependencies registered on
\* it.
OtherKeys == {"a"}
OtherDependencyArgs == {Str("a"), Arr(<<"a", "b">>)}

\* ------------------------------------------------------------------ state

VARIABLES
    values,     \* own properties of the object `values`: key -> value
    callbacks,  \* own properties of the object `callbacks`: key -> list of listeners
    values2,    \* `values` of a second instance, made by another call of Model
    callbacks2, \* `callbacks` of the second instance
    owner,      \* owner[r]: the instance whose when made reaction r
    instance,   \* the instance the last handler ran on
    deps,       \* deps[r]: the `dependencies` array closed over by reaction r
    fns,        \* fns[r]: the callback `fn` closed over by reaction r
    queued,     \* queued[r]: the flag of reaction r's debounce closure
    timers,     \* the host's queue of setTimeout(f, 0) tasks, oldest first
    trace,      \* the events of the last handler, in order
    last,       \* the last handler: which call, its arguments, its outcome
    execs,      \* execs[r]: how often reaction r's resolver has run
    trigs,      \* trigs[r]: how often reaction r's callFn was called
    bursts,     \* bursts[r]: how many bursts of triggers reaction r has seen
    fired,      \* fired[r]: how often reaction r's callback fn was invoked
    lastArgs,   \* lastArgs[r]: the arguments of fn's last invocation
    everDefined,\* the keys some set has given a defined value
    quiet,      \* quiet[r]: no set was called since when registered reaction r
    fresh,      \* fresh[r]: r's resolver ran after the last set on its dependencies
    ncalls      \* public calls made so far

vars == <<values, callbacks, values2, callbacks2, owner, instance, deps, fns, queued, timers, trace, last, execs, trigs,
          bursts, fired, lastArgs, everDefined, quiet, fresh, ncalls>>

\* ----------------------------------------------------------------- helpers

\* obj[key] = value on a plain object.
Put(obj, key, value) ==
    [x \in (DOMAIN obj) \cup {key} |-> IF x = key THEN value ELSE obj[x]]

\* Whether the expression obj[key] is truthy for the object `callbacks`: an
\* own property holds an array (truthy even when empty); a name inherited
\* from Object.prototype holds a function.
Truthy(obj, key) == key \in DOMAIN obj \/ key \in ObjectPrototypeKeys

\* The events of a handler.
Ev(e, k, v, r, args) == [e |-> e, k |-> k, v |-> v, r |-> r, args |-> args]
Emit(st, ev) == [st EXCEPT !.trace = Append(@, ev)]

\* A TypeError leaves the handler: nothing after it runs.
Throw(st) == [Emit(st, Ev("throw", "", Undefined, 0, <<>>)) EXCEPT !.threw = TRUE]

\* The number of tasks of reaction r in the timer queue q.
Pending(q, r) == Cardinality({i \in DOMAIN q : q[i] = r})

\* The program state a handler of the first instance works on, with an
\* empty event list.
Cur ==
    [values |-> values, callbacks |-> callbacks, deps |-> deps, fns |-> fns,
     queued |-> queued, timers |-> timers, trace |-> <<>>, threw |-> FALSE,
     owner |-> owner, self |-> 1]

\* A variant with callbacks and values declared outside Model: one pair of
\* maps for every instance.
Slot_shared(s) == 1

\* Every call of Model makes its own callbacks and values: instance s works
\* on the s-th pair.
Slot(s) == s

\* The program state a handler of instance s works on.
Of(s) ==
    IF Slot(s) = 1 THEN [Cur EXCEPT !.self = s]
    ELSE [Cur EXCEPT !.values = values2, !.callbacks = callbacks2,
                     !.self = s]

\* -------------------------------------------------------------- operations

\* get(key): values[key], found on the object itself or on its prototype.
get(st, key) ==
    IF key \in DOMAIN st.values THEN st.values[key]
    ELSE IF key \in ObjectPrototypeKeys THEN NativeFunction
    ELSE Undefined

\* allAreDefined(arr): a flag cleared by every undefined or null element.
RECURSIVE allAreDefinedFrom(_, _, _)
allAreDefinedFrom(arr, i, allDefined) ==
    IF i > Len(arr) THEN allDefined
    ELSE allAreDefinedFrom(arr, i + 1,
            IF arr[i] = Undefined \/ arr[i] = Null THEN FALSE ELSE allDefined)

\* A variant that tests only `typeof d === 'undefined'` and lets null pass.
allAreDefined_nullPasses(arr) ==
    \A i \in DOMAIN arr : arr[i] # Undefined

\* A variant that wants at least one element: false for the empty array.
allAreDefined_emptyIsFalse(arr) ==
    Len(arr) > 0 /\ allAreDefinedFrom(arr, 1, TRUE)

allAreDefined(arr) == allAreDefinedFrom(arr, 1, TRUE)

\* A variant that collects the values in the reverse order.
dependencyValues_reversed(st, r) ==
    [i \in 1..Len(st.deps[r]) |->
        get(st, st.deps[r][Len(st.deps[r]) + 1 - i])]

\* dependencies.map(...): the current value of each dependency, in order.
dependencyValues(st, r) ==
    [i \in 1..Len(st.deps[r]) |-> get(st, st.deps[r][i])]

\* A variant without the queued test: every call schedules a task.
callFn_noCoalescing(st, r) ==
    Emit([Emit(st, Ev("call", "", Undefined, r, <<>>))
             EXCEPT !.queued[r] = TRUE, !.timers = Append(@, r)],
         Ev("setTimeout", "", Undefined, r, <<>>))

\* A variant that schedules without setting the flag.
callFn_flagNotSet(st, r) ==
    LET s1 == Emit(st, Ev("call", "", Undefined, r, <<>>))
    IN IF ~s1.queued[r]
       THEN Emit([s1 EXCEPT !.timers = Append(@, r)],
                 Ev("setTimeout", "", Undefined, r, <<>>))
       ELSE s1

\* A variant that sets the flag and forgets to call setTimeout.
callFn_noTimeout(st, r) ==
    LET s1 == Emit(st, Ev("call", "", Undefined, r, <<>>))
    IN IF ~s1.queued[r] THEN [s1 EXCEPT !.queued[r] = TRUE] ELSE s1

\* A variant in which all debounced functions share the first one's flag.
callFn_sharedFlag(st, r) ==
    LET s1 == Emit(st, Ev("call", "", Undefined, r, <<>>))
    IN IF ~s1.queued[1]
       THEN Emit([s1 EXCEPT !.queued[1] = TRUE, !.timers = Append(@, r)],
                 Ev("setTimeout", "", Undefined, r, <<>>))
       ELSE s1

\* A variant that runs func at once instead of handing it to setTimeout
\* (with a fn that records).
callFn_synchronous(st, r) ==
    LET s1 == Emit(st, Ev("call", "", Undefined, r, <<>>))
        s2 == Emit(s1, Ev("func", "", Undefined, r, <<>>))
        args == dependencyValues(s2, r)
    IN IF s1.queued[r] THEN s1
       ELSE IF allAreDefined(args)
       THEN Emit(s2, Ev("apply", "", Undefined, r, args))
       ELSE s2

\* The function debounce returns (callFn): schedules one timer task unless
\* one is already queued.
callFn(st, r) ==
    LET s1 == Emit(st, Ev("call", "", Undefined, r, <<>>))
    IN IF ~s1.queued[r]
       THEN Emit([s1 EXCEPT !.queued[r] = TRUE, !.timers = Append(@, r)],
                 Ev("setTimeout", "", Undefined, r, <<>>))
       ELSE s1

\* on(key, callback): creates the list if callbacks[key] is falsy, then
\* pushes.  An inherited callbacks[key] is a function, which has no push.
on(st, key, r) ==
    LET s1 == IF ~Truthy(st.callbacks, key)
              THEN [st EXCEPT !.callbacks = Put(@, key, <<>>)]
              ELSE st
    IN IF key \in DOMAIN s1.callbacks
       THEN [s1 EXCEPT !.callbacks[key] = Append(@, r)]
       ELSE Throw(s1)

\* callbacks[key].forEach(callback => callback()), from listener i on.
RECURSIVE callListeners(_, _, _)
callListeners(st, list, i) ==
    IF i > Len(list) \/ st.threw THEN st
    ELSE callListeners(callFn(st, list[i]), list, i + 1)

\* A variant that leaves the stored value alone when value is undefined.
setKeyValue_skipsUndefined(st, key, value) ==
    LET s1 == IF value = Undefined THEN st
              ELSE Emit([st EXCEPT !.values = Put(@, key, value)],
                        Ev("store", key, value, 0, <<>>))
    IN IF Truthy(s1.callbacks, key)
       THEN IF key \in DOMAIN s1.callbacks
            THEN callListeners(s1, s1.callbacks[key], 1)
            ELSE Throw(s1)
       ELSE s1

\* A variant with change detection: no listener is called when the value
\* stored is the one already there.
setKeyValue_onlyOnChange(st, key, value) ==
    LET s1 == Emit([st EXCEPT !.values = Put(@, key, value)],
                   Ev("store", key, value, 0, <<>>))
    IN IF get(st, key) = value THEN s1
       ELSE IF Truthy(s1.callbacks, key)
       THEN IF key \in DOMAIN s1.callbacks
            THEN callListeners(s1, s1.callbacks[key], 1)
            ELSE Throw(s1)
       ELSE s1

\* setKeyValue(key, value): stores, then calls the listeners of key.  An
\* inherited callbacks[key] is truthy and has no forEach.
setKeyValue(st, key, value) ==
    LET s1 == Emit([st EXCEPT !.values = Put(@, key, value)],
                   Ev("store", key, value, 0, <<>>))
    IN IF Truthy(s1.callbacks, key)
       THEN IF key \in DOMAIN s1.callbacks
            THEN callListeners(s1, s1.callbacks[key], 1)
            ELSE Throw(s1)
       ELSE s1

\* setObject(object): setKeyValue for each key, in Object.keys order; an
\* exception leaves the loop.
RECURSIVE setObjectFrom(_, _, _)
setObjectFrom(st, object, i) ==
    IF i > Len(object) \/ st.threw THEN st
    ELSE setObjectFrom(setKeyValue(st, object[i].key, object[i].value),
                       object, i + 1)

\* A variant that stores every value first and notifies afterwards.
RECURSIVE storeFrom(_, _, _)
storeFrom(st, object, i) ==
    IF i > Len(object) THEN st
    ELSE storeFrom(Emit([st EXCEPT !.values =
                              Put(@, object[i].key, object[i].value)],
                        Ev("store", object[i].key, object[i].value, 0, <<>>)),
                   object, i + 1)

RECURSIVE notifyFrom(_, _, _)
notifyFrom(st, object, i) ==
    IF i > Len(object) \/ st.threw THEN st
    ELSE notifyFrom(
            IF Truthy(st.callbacks, object[i].key)
            THEN IF object[i].key \in DOMAIN st.callbacks
                 THEN callListeners(st, st.callbacks[object[i].key], 1)
                 ELSE Throw(st)
            ELSE st,
            object, i + 1)

setObject_batched(st, object) ==
    notifyFrom(storeFrom(st, object, 1), object, 1)

setObject(st, object) == setObjectFrom(st, object, 1)

\* dependencies.forEach(property => on(property, callFn)), from i on.
RECURSIVE registerFrom(_, _, _)
registerFrom(st, r, i) ==
    IF i > Len(st.deps[r]) \/ st.threw THEN st
    ELSE registerFrom(on(st, st.deps[r][i], r), r, i + 1)

\* A variant without the initial call of callFn.
when_noInitialCall(st, dependencies, fn) ==
    LET normalised == IF dependencies.type # "array"
                      THEN <<dependencies.key>>
                      ELSE dependencies.items
        r == Len(st.deps) + 1
        s1 == [st EXCEPT !.deps = Append(@, normalised),
                         !.fns = Append(@, fn),
                         !.owner = Append(@, st.self),
                         !.queued = Append(@, FALSE)]
    IN registerFrom(s1, r, 1)

\* when(dependencies, fn): normalises a single string to a one-element
\* array, builds the debounced resolver (a new closure, queued = false),
\* calls it once, then registers it on every dependency.
when(st, dependencies, fn) ==
    LET normalised == IF dependencies.type # "array"
                      THEN <<dependencies.key>>
                      ELSE dependencies.items
        r == Len(st.deps) + 1
        s1 == [st EXCEPT !.deps = Append(@, normalised),
                         !.fns = Append(@, fn),
                         !.owner = Append(@, st.self),
                         !.queued = Append(@, FALSE)]
    IN registerFrom(callFn(s1, r), r, 1)

\* set(keyOrObject, value): a string sets one key, anything else is taken
\* as an object of key/value pairs.
KeyArg(k) == [type |-> "string", key |-> k, entries |-> <<>>]
ObjectArg(o) == [type |-> "object", key |-> "", entries |-> o]

set(st, keyOrObject, value) ==
    IF keyOrObject.type = "string"
    THEN setKeyValue(st, keyOrObject.key, value)
    ELSE setObject(st, keyOrObject.entries)

\* What fn does besides recording its arguments, in the state st in which
\* it is invoked.
runFn(st, r) ==
    LET fn == st.fns[r]
    IN CASE fn.kind = "set" ->
               IF get(st, fn.key) # fn.val
               THEN set(st, KeyArg(fn.key), fn.val)
               ELSE st
         [] fn.kind = "throw" -> Throw(st)
         [] OTHER -> st

\* The function when passes to debounce: reads the dependencies and calls
\* fn with them if all are defined.
resolver(st, r) ==
    LET s1 == Emit(st, Ev("func", "", Undefined, r, <<>>))
        args == dependencyValues(s1, r)
    IN IF allAreDefined(args)
       THEN runFn(Emit(s1, Ev("apply", "", Undefined, r, args)), r)
       ELSE s1

\* A variant that runs func without clearing the flag.
timeoutTask_keepsFlag(st, r) == resolver(st, r)

\* A variant that clears the flag after func has run.
timeoutTask_clearsAfter(st, r) ==
    [resolver(st, r) EXCEPT !.queued[r] = FALSE]

\* A variant that clears the flag after func has run, and so not when func
\* throws.
timeoutTask_clearsOnReturn(st, r) ==
    LET s1 == resolver(st, r)
    IN IF s1.threw THEN s1 ELSE [s1 EXCEPT !.queued[r] = FALSE]

\* The task debounce hands to setTimeout: clears the flag, then runs func.
timeoutTask(st, r) ==
    resolver([st EXCEPT !.queued[r] = FALSE], r)

\* ------------------------------------------------------------ observations

\* How often the event e of reaction r occurs in the event list tr.
Count(tr, e, r) == Cardinality({i \in DOMAIN tr : tr[i].e = e /\ tr[i].r = r})

\* The arguments of the last invocation of reaction r's fn in tr, else old.
LastApply(tr, r, old) ==
    LET at == {i \in DOMAIN tr : tr[i].e = "apply" /\ tr[i].r = r}
    IN IF at = {} THEN old
       ELSE tr[CHOOSE i \in at : \A j \in at : j <= i].args

\* The events tr start a burst of reaction r: they call r's callFn when no
\* earlier trigger is still waiting for its execution, which is so after
\* the resolver has run, or from the start if none was outstanding then.
StartsBurst(tr, r, outstanding) ==
    \E i \in DOMAIN tr :
       /\ tr[i].e = "call" /\ tr[i].r = r
       /\ \/ ~outstanding
          \/ \E j \in 1..(i - 1) : tr[j].e = "func" /\ tr[j].r = r

\* Whether, after the events tr, the resolver of a reaction with the
\* dependencies d has run since the last store under one of them: so if
\* its last run in tr follows every such store of tr, and as before (old)
\* if tr has neither.
RanSinceLastSet(tr, r, d, old) ==
    LET runs == {i \in DOMAIN tr : tr[i].e = "func" /\ tr[i].r = r}
        stores == {i \in DOMAIN tr :
                     /\ tr[i].e = "store"
                     /\ \E n \in DOMAIN d : d[n] = tr[i].k}
    IN IF runs = {} THEN stores = {} /\ old
       ELSE \E i \in runs : \A j \in stores : j < i

\* A per-reaction counter read at r, 0 for a reaction registered just now.
Old(counter, r) == IF r \in DOMAIN counter THEN counter[r] ELSE 0
OldArgs(r) == IF r \in DOMAIN lastArgs THEN lastArgs[r] ELSE <<>>

\* The record of a handler.
Handler(op, key, val, object, dependencies, r, ret, threw, applied) ==
    [op |-> op, key |-> key, val |-> val, object |-> object,
     dependencies |-> dependencies, r |-> r, ret |-> ret, threw |-> threw,
     applied |-> applied]

\* The state a handler leaves: the program state it computed, and what the
\* observers (the callbacks fn, the counters) saw of its events.
Commit(res, handler) ==
    /\ values' = IF Slot(res.self) = 1 THEN res.values ELSE values
    /\ callbacks' = IF Slot(res.self) = 1 THEN res.callbacks ELSE callbacks
    /\ values2' = IF Slot(res.self) = 1 THEN values2 ELSE res.values
    /\ callbacks2' = IF Slot(res.self) = 1 THEN callbacks2 ELSE res.callbacks
    /\ owner' = res.owner
    /\ instance' = res.self
    /\ deps' = res.deps
    /\ fns' = res.fns
    /\ queued' = res.queued
    /\ timers' = res.timers
    /\ trace' = res.trace
    /\ last' = handler
    /\ execs' = [r \in DOMAIN deps' |->
                    Old(execs, r) + Count(trace', "func", r)]
    /\ trigs' = [r \in DOMAIN deps' |->
                    Old(trigs, r) + Count(trace', "call", r)]
    /\ bursts' = [r \in DOMAIN deps' |->
                    Old(bursts, r)
                    + (IF StartsBurst(trace', r, Old(bursts, r) > Old(execs, r))
                       THEN 1 ELSE 0)]
    /\ fired' = [r \in DOMAIN deps' |->
                    Old(fired, r) + Count(trace', "apply", r)]
    /\ lastArgs' = [r \in DOMAIN deps' |->
                    LastApply(trace', r, OldArgs(r))]
    /\ everDefined' = everDefined \cup
            {trace'[i].k : i \in {j \in DOMAIN trace' :
                /\ trace'[j].e = "store"
                /\ trace'[j].v \notin {Undefined, Null}}}
    /\ fresh' = [r \in DOMAIN deps' |->
                    RanSinceLastSet(trace', r,
                                    IF owner'[r] = instance' THEN deps'[r]
                                    ELSE <<>>,
                                    r \in DOMAIN fresh /\ fresh[r])]
    /\ quiet' = [r \in DOMAIN deps' |->
                    /\ handler.op \notin {"set", "setObject"}
                    /\ \A i \in DOMAIN trace' : trace'[i].e # "store"
                    /\ (r \in DOMAIN quiet => quiet[r])]

\* ----------------------------------------------------------------- actions

EmptyObject == [x \in {} |-> Undefined]

Init ==
    /\ values = EmptyObject
    /\ callbacks = EmptyObject
    /\ values2 = EmptyObject
    /\ callbacks2 = EmptyObject
    /\ owner = <<>>
    /\ instance = 1
    /\ deps = <<>>
    /\ fns = <<>>
    /\ queued = <<>>
    /\ timers = <<>>
    /\ trace = <<>>
    /\ last = Handler("Model", "", Undefined, <<>>, Arr(<<>>), 0, Undefined,
                      FALSE, FALSE)
    /\ execs = <<>>
    /\ trigs = <<>>
    /\ bursts = <<>>
    /\ fired = <<>>
    /\ lastArgs = <<>>
    /\ everDefined = {}
    /\ quiet = <<>>
    /\ fresh = <<>>
    /\ ncalls = 0

\* model.set(k, v)
Set(k, v) ==
    /\ ncalls < MaxCalls
    /\ LET res == set(Cur, KeyArg(k), v)
       IN Commit(res, Handler("set", k, v, <<>>, Arr(<<>>), 0, Undefined,
                              res.threw, FALSE))
    /\ ncalls' = ncalls + 1

\* model.set(object)
SetObject(o) ==
    /\ ncalls < MaxCalls
    /\ LET res == set(Cur, ObjectArg(o), Undefined)
       IN Commit(res, Handler("setObject", "", Undefined, o, Arr(<<>>), 0,
                              Undefined, res.threw, FALSE))
    /\ ncalls' = ncalls + 1

\* model.get(k)
Get(k) ==
    /\ ncalls < MaxCalls
    /\ last' = Handler("get", k, Undefined, <<>>, Arr(<<>>), 0, get(Cur, k),
                       FALSE, FALSE)
    /\ trace' = <<>>
    /\ instance' = 1
    /\ UNCHANGED <<values, callbacks, values2, callbacks2, owner, deps, fns, queued, timers, execs, trigs,
                   bursts, fired, lastArgs, everDefined, quiet, fresh>>
    /\ ncalls' = ncalls + 1

\* model.when(d, fn) with a fn that only records
When(d) ==
    /\ ncalls < MaxCalls
    /\ Len(deps) < MaxReactions
    /\ LET res == when(Cur, d, Recorder)
       IN Commit(res, Handler("when", "", Undefined, <<>>, d, Len(res.deps),
                              Undefined, res.threw, FALSE))
    /\ ncalls' = ncalls + 1

\* model.when(d, fn) with a fn that calls set or throws
WhenCallback(d, fn) ==
    /\ ncalls < MaxCalls
    /\ Len(deps) < MaxReactions
    /\ LET res == when(Cur, d, fn)
       IN Commit(res, Handler("when", "", Undefined, <<>>, d, Len(res.deps),
                              Undefined, res.threw, FALSE))
    /\ ncalls' = ncalls + 1

\* The host runs the oldest timer task.
Timer ==
    /\ timers # <<>>
    /\ UNCHANGED ncalls
    /\ LET r == Head(timers)
           res == timeoutTask([Of(owner[r]) EXCEPT !.timers = Tail(@)], r)
       IN Commit(res, Handler("timer", "", Undefined, <<>>, Arr(<<>>), r,
                              Undefined, res.threw,
                              Count(trace', "apply", r) > 0))

Next ==
    \/ \E k \in Keys, v \in Vals : Set(k, v)
    \/ \E o \in Objects : SetObject(o)
    \/ \E k \in Keys : Get(k)
    \/ \E d \in DependencyArgs : When(d)
    \/ Timer

Spec == Init /\ [][Next]_vars

\* The program with callbacks that call set or throw.
NextCallbacks ==
    \/ Next
    \/ \E d \in CallbackDependencies, fn \in Callbacks : WhenCallback(d, fn)

CallbackSpec == Init /\ [][NextCallbacks]_vars

\* second.set(k, v), on the second instance
SetOther(k, v) ==
    /\ ncalls < MaxCalls
    /\ LET res == set(Of(2), KeyArg(k), v)
       IN Commit(res, Handler("set", k, v, <<>>, Arr(<<>>), 0, Undefined,
                              res.threw, FALSE))
    /\ ncalls' = ncalls + 1

\* second.when(d, fn), on the second instance
WhenOther(d) ==
    /\ ncalls < MaxCalls
    /\ Len(deps) < MaxReactions
    /\ LET res == when(Of(2), d, Recorder)
       IN Commit(res, Handler("when", "", Undefined, <<>>, d, Len(res.deps),
                              Undefined, res.threw, FALSE))
    /\ ncalls' = ncalls + 1

\* The program with two instances.
NextTwo ==
    \/ Next
    \/ \E k \in OtherKeys, v \in Vals : SetOther(k, v)
    \/ \E d \in OtherDependencyArgs : WhenOther(d)

TwoSpec == Init /\ [][NextTwo]_vars

\* The host's event loop runs every timer task that is due: a task queued by
\* setTimeout(f, 0) is not left waiting for ever.
FairSpec == Spec /\ WF_vars(Timer)

\* ------------------------------------------------------------------ claims

\* A value is defined when it is neither undefined nor null.
IsDefined(v) == v # Undefined /\ v # Null

\* The current value of every dependency of reaction r is defined.
DepsDefinedNow(r) ==
    \A i \in DOMAIN deps[r] : IsDefined(get(Cur, deps[r][i]))

\* C1: each time a resolver executes, fn is invoked if and only if every
\* dependency's current value is defined; fn never receives an undefined or
\* null argument; and fn of a reaction is not invoked before every one of
\* its dependencies that is an ordinary name (such as "a" and "b") has been
\* given a defined value by some set.
C1_InvokedIffAllDefined ==
    /\ last.op = "timer" => (last.applied <=> DepsDefinedNow(last.r))
    /\ \A i \in DOMAIN trace :
          trace[i].e = "apply" =>
             \A j \in DOMAIN trace[i].args : IsDefined(trace[i].args[j])
    /\ \A r \in DOMAIN deps :
          fired[r] > 0 =>
             /\ \A j \in DOMAIN lastArgs[r] : IsDefined(lastArgs[r][j])
             /\ \A i \in DOMAIN deps[r] :
                   deps[r][i] \notin ObjectPrototypeKeys
                      => deps[r][i] \in everDefined

\* when(["a","b"], fn), a first execution that skips fn, then both keys set
\* and a second execution that invokes fn.
C1_Witness ==
    /\ last.op = "timer"
    /\ last.applied
    /\ deps[last.r] = <<"a", "b">>
    /\ execs[last.r] = 2
    /\ fired[last.r] = 1

\* C2: the triggers of a reaction that occur before its deferred execution
\* runs (one or more, from set(key, value), from the keys of set(object),
\* from when itself) form one burst, and a burst results in exactly one
\* resolver execution: executions done plus the one pending equal the
\* bursts seen, at most one execution is pending, and a timer task runs
\* the resolver once and invokes fn at most once.
C2_Coalescing ==
    \A r \in DOMAIN deps :
       /\ Pending(timers, r) = bursts[r] - execs[r]
       /\ Pending(timers, r) <= 1
       /\ bursts[r] <= trigs[r]
       /\ last.op = "timer" /\ last.r = r =>
             /\ Count(trace, "func", r) = 1
             /\ Count(trace, "apply", r) <= 1

\* when(["a","b"], fn), set("a", 1), set("b", 2) before the timer task:
\* three triggers, one execution, fn invoked once with [1, 2].
C2_Witness ==
    /\ last.op = "timer"
    /\ deps[last.r] = <<"a", "b">>
    /\ trigs[last.r] = 3
    /\ bursts[last.r] = 1
    /\ execs[last.r] = 1
    /\ fired[last.r] = 1
    /\ lastArgs[last.r] = <<1, 2>>
    /\ timers = <<>>

\* The keys of an object passed to set.
ObjectKeys(o) == {o[i].key : i \in DOMAIN o}

\* C3: after set(k, v), get(k) is v, for every key and every value, null
\* and undefined included, so that the last of two sets on k wins; and the
\* value get(k) returns changes only in a set on k (set(k, v), or
\* set(object) with k among the object's keys).
C3_RoundTrip ==
    [][\A k \in Keys :
          /\ last'.op = "set" /\ last'.key = k => get(Cur, k)' = last'.val
          /\ get(Cur, k)' # get(Cur, k) =>
                \/ last'.op = "set" /\ last'.key = k
                \/ last'.op = "setObject" /\ k \in ObjectKeys(last'.object)]_vars

\* set("a", undefined) after "a" held a defined value: get("a") is
\* undefined again.
C3_Witness ==
    /\ last.op = "set"
    /\ last.key = "a"
    /\ last.val = Undefined
    /\ "a" \in everDefined
    /\ get(Cur, "a") = Undefined

\* Reaction r is registered, no set was called since, and all its
\* dependencies hold defined values (as they did when when was called).
RegisteredOnDefined(r) ==
    IF r \in DOMAIN deps THEN quiet[r] /\ DepsDefinedNow(r) ELSE FALSE

\* A set was called after when registered reaction r.
SetCalledSince(r) ==
    IF r \in DOMAIN deps THEN ~quiet[r] ELSE FALSE

\* fn of reaction r was invoked exactly once, with the current values.
FiredOnceWithCurrent(r) ==
    IF r \in DOMAIN deps
    THEN fired[r] = 1 /\ lastArgs[r] = dependencyValues(Cur, r)
    ELSE FALSE

\* C4: if when(deps, fn) is called while every dependency holds a defined
\* value then, unless a set is called, fn is eventually invoked, and as
\* long as no set is called it is invoked exactly once, with the current
\* values of the dependencies.
C4_InitializationFiring ==
    \A r \in 1..MaxReactions :
       RegisteredOnDefined(r) ~> (SetCalledSince(r) \/ FiredOnceWithCurrent(r))

\* set("a", 2) and then when("a", fn): fn was invoked once, with [2], and
\* no set was called after when.
C4_Witness ==
    /\ last.op = "timer"
    /\ deps[last.r] = <<"a">>
    /\ quiet[last.r]
    /\ fired[last.r] = 1
    /\ lastArgs[last.r] = <<2>>

\* C5: fn is never invoked, and no resolver runs, while set or when is
\* executing: resolvers run only in timer tasks, which the host starts after
\* the call that scheduled them has returned.  When when returns, its own
\* resolver has not run: it is queued, also when all dependencies are
\* defined.
C5_Asynchrony ==
    /\ \A i \in DOMAIN trace :
          trace[i].e \in {"func", "apply"} => last.op = "timer"
    /\ last.op = "when" =>
          /\ execs[last.r] = 0
          /\ fired[last.r] = 0
          /\ Pending(timers, last.r) = 1

\* when returns with all dependencies defined and fn not yet invoked.
C5_Witness ==
    /\ last.op = "when"
    /\ deps[last.r] = <<"a", "b">>
    /\ DepsDefinedNow(last.r)
    /\ fired[last.r] = 0
    /\ timers = <<last.r>>

\* Reaction r is registered as a listener of key k.
Listens(r, k) ==
    /\ k \in DOMAIN callbacks
    /\ \E i \in DOMAIN callbacks[k] : callbacks[k][i] = r

\* The last handler was a set call that stored under key k.
SetOn(k) ==
    \/ last.op = "set" /\ last.key = k
    \/ last.op = "setObject" /\ k \in ObjectKeys(last.object)

\* C6: an execution that finds a dependency undefined or null does not
\* invoke fn, leaves nothing pending and the flag clear (no retry); a
\* reaction gets a pending execution only by when registering it or by a
\* set on a key it listens to, and fn is invoked only in its own timer
\* task; a set on a key it listens to makes it pending again, and the
\* execution that then finds all dependencies defined invokes fn exactly
\* once with the current values.
C6_SkipAndRecover ==
    [][\A r \in DOMAIN deps' :
          /\ last'.op = "timer" /\ last'.r = r =>
                /\ Pending(timers', r) = 0
                /\ ~queued'[r]
                /\ IF DepsDefinedNow(r)'
                   THEN /\ fired'[r] = fired[r] + 1
                        /\ lastArgs'[r] = dependencyValues(Cur, r)'
                   ELSE fired'[r] = fired[r]
          /\ r \in DOMAIN deps /\ Pending(timers', r) > Pending(timers, r) =>
                \E k \in Keys : SetOn(k)' /\ Listens(r, k)
          /\ r \in DOMAIN deps /\ fired'[r] # fired[r] =>
                last'.op = "timer" /\ last'.r = r
          /\ \A k \in Keys :
                last'.op = "set" /\ last'.key = k /\ Listens(r, k) =>
                   Pending(timers', r) = 1]_vars

\* when(["a"], fn); set("a", null) and an execution that skips fn;
\* set("a", 2) and an execution that invokes fn with [2].
C6_Witness ==
    /\ last.op = "timer"
    /\ deps[last.r] = <<"a">>
    /\ execs[last.r] >= 2
    /\ fired[last.r] = 1
    /\ lastArgs[last.r] = <<2>>
    /\ ncalls = 3
    /\ "a" \in everDefined
    /\ bursts[last.r] = 2

\* C7: reactions are independent.  A timer task of one reaction leaves the
\* flag, the pending execution, the counters and the last arguments of
\* every other reaction as they were; a set on a key makes every reaction
\* listening to it pending, once each, whatever the state of the others;
\* and whether a task invokes its fn is decided by the definedness of that
\* reaction's own dependencies alone.
C7_Independence ==
    [][\A r \in DOMAIN deps :
          /\ last'.op = "timer" /\ last'.r # r =>
                /\ queued'[r] = queued[r]
                /\ Pending(timers', r) = Pending(timers, r)
                /\ execs'[r] = execs[r]
                /\ fired'[r] = fired[r]
                /\ lastArgs'[r] = lastArgs[r]
          /\ last'.op = "timer" /\ last'.r = r =>
                /\ execs'[r] = execs[r] + 1
                /\ fired'[r] - fired[r] = (IF DepsDefinedNow(r) THEN 1 ELSE 0)
          /\ \A k \in Keys :
                SetOn(k)' /\ ~last'.threw /\ Listens(r, k) =>
                   /\ Pending(timers', r) = 1
                   /\ queued'[r]]_vars

\* when("a", ...) and when(["a","b"], ...), then set("a", 1): both resolvers
\* ran once; the first invoked its fn, the second, with b undefined, did not.
C7_Witness ==
    /\ last.op = "timer"
    /\ Len(deps) = 2
    /\ deps[1] = <<"a">>
    /\ deps[2] = <<"a", "b">>
    /\ execs = <<1, 1>>
    /\ fired = <<1, 0>>
    /\ trigs = <<2, 2>>
    /\ timers = <<>>

\* C8: whenever fn is invoked, its i-th argument is the value the store
\* holds for the i-th dependency when the resolver executes (not when a set
\* triggered it), in the order the caller gave; a dependency given as a
\* single string is the one-element list of that string.
C8_ArgumentOrder ==
    /\ last.op = "timer" /\ last.applied =>
          /\ Len(lastArgs[last.r]) = Len(deps[last.r])
          /\ \A i \in DOMAIN deps[last.r] :
                lastArgs[last.r][i] = get(Cur, deps[last.r][i])
          /\ \E n \in DOMAIN trace :
                /\ trace[n].e = "apply"
                /\ trace[n].args = lastArgs[last.r]
    /\ last.op = "when" =>
          deps[last.r] = (IF last.dependencies.type = "string"
                          THEN <<last.dependencies.key>>
                          ELSE last.dependencies.items)

\* when(["b","a"], fn) with a = 1 and b = 2: fn receives [2, 1].
C8_Witness ==
    /\ last.op = "timer"
    /\ last.applied
    /\ deps[last.r] = <<"b", "a">>
    /\ lastArgs[last.r] = <<2, 1>>

\* when("a", fn) with a single string: the dependency list is ["a"], and fn
\* receives the value of the latest of two sets in the burst.
C8_WitnessFresh ==
    /\ last.op = "timer"
    /\ last.applied
    /\ deps[last.r] = <<"a">>
    /\ trigs[last.r] = 3
    /\ execs[last.r] = 1
    /\ lastArgs[last.r] = <<2>>

\* C9: get on a key that has never been set (the object `values` has no
\* own property of that name) returns undefined, and get changes neither
\* the stored values, nor the listener registry, nor a pending flag.
C9_GetMissingIsUndefined ==
    [][last'.op = "get" =>
          /\ last'.key \notin DOMAIN values => last'.ret = Undefined
          /\ ~last'.threw
          /\ UNCHANGED <<values, callbacks, deps, queued, timers>>]_vars

\* The part of C9 that holds of the code: get on a never-set name that
\* Object.prototype does not define returns undefined, get raises no error
\* and changes nothing.
C9_GetMissingOrdinary ==
    [][last'.op = "get" =>
          /\ last'.key \notin DOMAIN values \cup ObjectPrototypeKeys
                => last'.ret = Undefined
          /\ ~last'.threw
          /\ UNCHANGED <<values, callbacks, deps, queued, timers>>]_vars

\* The state after every set(key, value) of object o in turn, each from the
\* state the one before left, up to the first that throws.
RECURSIVE SetsInOrder(_, _, _)
SetsInOrder(st, o, i) ==
    IF i > Len(o) \/ st.threw THEN st
    ELSE SetsInOrder(set(st, KeyArg(o[i].key), o[i].value), o, i + 1)

\* In the event list tr every listener call follows, with no other store
\* in between, a store under a key that the called reaction listens to.
RoundsInOrder(tr) ==
    \A n \in DOMAIN tr :
       tr[n].e = "call" =>
          \E m \in 1..(n - 1) :
             /\ tr[m].e = "store"
             /\ Listens(tr[n].r, tr[m].k)
             /\ \A j \in (m + 1)..(n - 1) : tr[j].e # "store"

\* C10: set(object) leaves the state that the calls set(key, object[key]),
\* made in the object's key order, leave: the same stored values, pending
\* flags, timer queue and events; and each key's listeners are all called
\* before the next key's value is stored.
C10_SetObjectIsSequenceOfSets ==
    [][last'.op = "setObject" =>
          LET seq == SetsInOrder(Cur, last'.object, 1)
          IN /\ values' = seq.values
             /\ callbacks' = seq.callbacks
             /\ queued' = seq.queued
             /\ timers' = seq.timers
             /\ trace' = seq.trace
             /\ last'.threw = seq.threw
             /\ RoundsInOrder(trace)']_vars

\* set({b: 2, a: 1}) with one reaction on "a" and another on "b": the
\* reaction on "b" is scheduled first.
C10_Witness ==
    /\ last.op = "setObject"
    /\ last.object = <<Entry("b", 2), Entry("a", 1)>>
    /\ deps = << <<"a">>, <<"b">> >>
    /\ timers = <<2, 1>>
    /\ get(Cur, "a") = 1
    /\ get(Cur, "b") = 2

\* C12 as stated: for when([], fn), fn is invoked immediately, with zero
\* arguments: it has been invoked once when when returns, and is never
\* invoked again.
C12_EmptyInvokedImmediately ==
    \A r \in DOMAIN deps :
       deps[r] = <<>> =>
          /\ fired[r] = 1
          /\ lastArgs[r] = <<>>

\* C12, amended: for when([], fn), fn is not invoked while when executes;
\* the registration call schedules the one execution the resolver will
\* ever have, and that execution invokes fn with zero arguments.  The
\* resolver listens to no key, is triggered once (by when), and no set
\* schedules it again.
C12_EmptyDependencies ==
    \A r \in DOMAIN deps :
       deps[r] = <<>> =>
          /\ \A k \in Keys : ~Listens(r, k)
          /\ trigs[r] = 1
          /\ bursts[r] = 1
          /\ execs[r] + Pending(timers, r) = 1
          /\ fired[r] = execs[r]
          /\ lastArgs[r] = <<>>
          /\ last.op = "when" /\ last.r = r => fired[r] = 0
          /\ last.op = "timer" /\ last.r = r =>
                \E n \in DOMAIN trace :
                   trace[n] = Ev("apply", "", Undefined, r, <<>>)

\* when([], fn), its execution, and then two sets: fn was invoked once.
C12_Witness ==
    /\ ncalls = 3
    /\ last.op \in {"set", "setObject"}
    /\ deps = << <<>> >>
    /\ fired = <<1>>
    /\ DOMAIN values # {}
    /\ timers = <<>>

\* C13: a reaction has no or one timer task scheduled and not yet run, one
\* exactly when its queued flag is true; a handler calls setTimeout for a
\* reaction at most once however often it calls the reaction's callFn.
C13_AtMostOnePending ==
    \A r \in DOMAIN deps :
       /\ Pending(timers, r) = (IF queued[r] THEN 1 ELSE 0)
       /\ Count(trace, "setTimeout", r) <= 1
       /\ Count(trace, "setTimeout", r) <= Count(trace, "call", r)
       /\ last.op # "timer" /\ Count(trace, "call", r) > 0 => queued[r]

\* Three triggers of a reaction (when and two sets), one task pending.
C13_Witness ==
    /\ deps = << <<"a", "b">> >>
    /\ trigs = <<3>>
    /\ execs = <<0>>
    /\ queued = <<TRUE>>
    /\ timers = <<1>>
    /\ Count(trace, "call", 1) = 1
    /\ Count(trace, "setTimeout", 1) = 0

\* The listener list of key k in the registry cb, empty if k has none.
ListenersOf(cb, k) == IF k \in DOMAIN cb THEN cb[k] ELSE <<>>

\* How often x occurs in the sequence list.
Occurrences(list, x) == Cardinality({i \in DOMAIN list : list[i] = x})

\* The reactions whose callFn the events tr call, in the order of the calls.
RECURSIVE CallsOf(_)
CallsOf(tr) ==
    IF tr = <<>> THEN <<>>
    ELSE IF Head(tr).e = "call" THEN <<Head(tr).r>> \o CallsOf(Tail(tr))
    ELSE CallsOf(Tail(tr))

\* C15: every set(k, v) first stores v under k and then, before it returns,
\* calls each entry of k's listener list once, in registration order,
\* whether or not v differs from the value stored before: every entry's
\* reaction is pending afterwards, and a reaction's trigger count grows by
\* the number of its entries, so that two sets on k trigger twice.
C15_NotificationRound ==
    [][\A k \in Keys : last'.op = "set" /\ last'.key = k =>
         LET list == ListenersOf(callbacks, k)
         IN /\ trace' # <<>>
            /\ trace'[1] = Ev("store", k, last'.val, 0, <<>>)
            /\ \A n \in DOMAIN trace' : n > 1 => trace'[n].e # "store"
            /\ get(Cur, k)' = last'.val
            /\ CallsOf(trace') = list
            /\ \A r \in DOMAIN deps :
                  /\ trigs'[r] = trigs[r] + Occurrences(list, r)
                  /\ Occurrences(list, r) > 0 =>
                        queued'[r] /\ Pending(timers', r) = 1]_vars

\* when("a"), its skipped execution, set("a", 1) and the invocation with
\* [1], and then set("a", 1) again: the reaction is pending a third time.
C15_Witness ==
    /\ last.op = "set" /\ last.key = "a" /\ last.val = 1
    /\ deps = << <<"a">> >>
    /\ lastArgs = << <<1>> >>
    /\ trigs = <<3>>
    /\ execs = <<2>>
    /\ queued = <<TRUE>>
    /\ CallsOf(trace) = <<1>>

\* Two reactions on one key, called in registration order by a set.
C15_WitnessOrder ==
    /\ last.op = "set" /\ last.key = "a"
    /\ ListenersOf(callbacks, "a") = <<1, 2>>
    /\ CallsOf(trace) = <<1, 2>>

\* Key k occurs in the dependency list of reaction r.
Lists(r, k) == \E i \in DOMAIN deps[r] : deps[r][i] = k

\* What a set on key k leaves alone: the values of the other keys and the
\* registry.
SetFrame(k) ==
    /\ \A j \in Keys \ {k} : get(Cur, j)' = get(Cur, j)
    /\ callbacks' = callbacks

\* C16 as stated: set(k, v) makes pending exactly the reactions whose
\* dependency list contains k, and leaves the values of the other keys, the
\* registry, and the flag and pending task of every reaction that does not
\* list k as they were.
C16_TriggerScope ==
    [][\A k \in Keys : last'.op = "set" /\ last'.key = k =>
            /\ SetFrame(k)
            /\ \A r \in DOMAIN deps :
                  IF Lists(r, k)
                  THEN queued'[r] /\ Pending(timers', r) = 1
                  ELSE /\ queued'[r] = queued[r]
                       /\ Pending(timers', r) = Pending(timers, r)]_vars

\* What holds of C16: the same with "is registered as a listener of k" in
\* the place of "lists k".
C16_TriggerScopeListened ==
    [][\A k \in Keys : last'.op = "set" /\ last'.key = k =>
            /\ SetFrame(k)
            /\ \A r \in DOMAIN deps :
                  IF Listens(r, k)
                  THEN queued'[r] /\ Pending(timers', r) = 1
                  ELSE /\ queued'[r] = queued[r]
                       /\ Pending(timers', r) = Pending(timers, r)]_vars

\* The names that occur in the dependency list d.
Names(d) == {d[i] : i \in DOMAIN d}

\* Every name present in the registry has a non-empty listener list.
NonEmptyLists ==
    \A k \in DOMAIN callbacks : callbacks[k] # <<>>

\* C17 as stated: every name present in the registry maps to a non-empty
\* list; no step removes a name or an entry; set, get and the timer tasks
\* leave the registry alone; when(deps, fn) appends exactly one entry, its
\* own resolver, to the list of each name that occurs in deps, and touches
\* no other list.
C17_Registry ==
    [][/\ NonEmptyLists'
       /\ last'.op # "when" => callbacks' = callbacks
       /\ last'.op = "when" =>
             LET r == last'.r
             IN \A k \in Keys :
                   ListenersOf(callbacks', k) =
                      IF k \in Names(deps'[r])
                      THEN Append(ListenersOf(callbacks, k), r)
                      ELSE ListenersOf(callbacks, k)]_vars

\* What holds of C17: the lists only grow, by when alone, and when appends
\* its resolver once per occurrence of a name, up to the first name that
\* Object.prototype defines, where it throws.
C17_RegistryOrdinary ==
    [][/\ \A k \in DOMAIN callbacks :
             /\ k \in DOMAIN callbacks'
             /\ Len(callbacks'[k]) >= Len(callbacks[k])
             /\ SubSeq(callbacks'[k], 1, Len(callbacks[k])) = callbacks[k]
       /\ last'.op # "when" => callbacks' = callbacks
       /\ last'.op = "when" =>
             LET r == last'.r
                 d == deps'[r]
                 ok == {i \in DOMAIN d :
                          \A j \in 1..i : d[j] \notin ObjectPrototypeKeys}
             IN /\ last'.threw <=> ok # DOMAIN d
                /\ \A k \in Keys :
                      ListenersOf(callbacks', k) =
                         ListenersOf(callbacks, k)
                         \o [n \in 1..Cardinality({i \in ok : d[i] = k})
                               |-> r]]_vars

\* The events tr call reaction r's callFn after r's resolver has started,
\* and every such call that finds the flag clear is followed by setTimeout.
TriggeredWhileExecuting(tr, r) ==
    \E i \in DOMAIN tr : \E j \in DOMAIN tr :
       /\ tr[i].e = "func" /\ tr[i].r = r
       /\ j > i
       /\ tr[j].e = "call" /\ tr[j].r = r

\* C14: the flag is cleared before the resolver runs, so a handler that
\* calls a reaction's callFn (a set, or the reaction's own fn calling set
\* while its resolver executes) always leaves that reaction with the flag
\* set and exactly one task pending, for a burst that no execution has
\* served yet; a trigger during the execution opens a new burst, and a
\* task that triggers nothing leaves the flag clear and nothing pending.
C14_FreshBurst ==
    [][\A r \in DOMAIN deps' :
          /\ Count(trace', "call", r) > 0 =>
                /\ queued'[r]
                /\ Pending(timers', r) = 1
                /\ bursts'[r] = execs'[r] + 1
          /\ last'.op = "timer" /\ last'.r = r =>
                /\ execs'[r] = execs[r] + 1
                /\ trace'[1] = Ev("func", "", Undefined, r, <<>>)
                /\ IF TriggeredWhileExecuting(trace', r)
                   THEN /\ bursts'[r] = bursts[r] + 1
                        /\ Count(trace', "setTimeout", r) = 1
                        /\ Pending(Tail(timers), r) = 0
                   ELSE /\ bursts'[r] = bursts[r]
                        /\ ~queued'[r]
                        /\ Pending(timers', r) = 0]_vars

\* set("a", 1), when("a", fn) with a fn that sets a to MaxVal: the first
\* execution invoked fn with [1], fn's set triggered the reaction while it
\* executed, and the second execution invoked fn with [MaxVal].
C14_Witness ==
    /\ deps = << <<"a">> >>
    /\ fns = <<Setter("a", MaxVal)>>
    /\ last.op = "timer"
    /\ execs = <<2>>
    /\ fired = <<2>>
    /\ bursts = <<2>>
    /\ lastArgs = << <<MaxVal>> >>
    /\ timers = <<>>

\* The state between the two executions: the trigger of the first is
\* pending.
C14_WitnessPending ==
    /\ fns = <<Setter("a", MaxVal)>>
    /\ last.op = "timer" /\ last.applied
    /\ TriggeredWhileExecuting(trace, 1)
    /\ lastArgs = << <<1>> >>
    /\ queued = <<TRUE>>
    /\ timers = <<1>>

\* C19: a timer task whose fn throws leaves the reaction's flag clear and
\* nothing pending for it, and the values, the registry and the other
\* reactions' flags and tasks as they were; the next set on a key the
\* reaction listens to makes it pending again, as for any other reaction.
C19_ThrowingCallback ==
    [][\A r \in DOMAIN deps :
          /\ last'.op = "timer" /\ last'.r = r /\ last'.threw =>
                /\ last'.applied
                /\ ~queued'[r]
                /\ timers' = Tail(timers)
                /\ Pending(timers', r) = 0
                /\ values' = values
                /\ callbacks' = callbacks
                /\ \A q \in DOMAIN deps \ {r} : queued'[q] = queued[q]
          /\ \A k \in Keys :
                /\ fns[r] = Thrower /\ fired[r] > 0 /\ Listens(r, k)
                /\ last'.op = "set" /\ last'.key = k
                => /\ queued'[r]
                   /\ Pending(timers', r) = 1
                   /\ trigs'[r] > trigs[r]]_vars

\* when("a", fn) with a fn that throws, set("a", 1), the task in which fn
\* throws, set("a", 2), and the task in which fn throws again.
C19_Witness ==
    /\ deps = << <<"a">> >>
    /\ fns = <<Thrower>>
    /\ last.op = "timer" /\ last.threw
    /\ fired = <<2>>
    /\ execs = <<3>>
    /\ queued = <<FALSE>>
    /\ timers = <<>>

\* Reaction r has no execution pending.
Quiescent(r) == ~queued[r] /\ Pending(timers, r) = 0

\* The most recent invocation of r's fn received the current values.
InvokedWithCurrent(r) ==
    /\ fired[r] > 0
    /\ lastArgs[r] = dependencyValues(Cur, r)

\* C18 as stated: whenever a reaction created by when has no execution
\* pending, its resolver has run since the most recent set on any of its
\* dependencies and since its registration; so if all its dependencies are
\* defined then, the most recent invocation of its fn received exactly the
\* current values.
C18_NoLostUpdate ==
    \A r \in DOMAIN deps :
       Quiescent(r) =>
          /\ fresh[r]
          /\ DepsDefinedNow(r) => InvokedWithCurrent(r)

\* What holds of C18: the same for the reactions whose dependencies are
\* all names that Object.prototype does not define.
C18_NoLostUpdateOrdinary ==
    \A r \in DOMAIN deps :
       Quiescent(r) /\ Names(deps[r]) \cap ObjectPrototypeKeys = {} =>
          /\ fresh[r]
          /\ DepsDefinedNow(r) => InvokedWithCurrent(r)

\* Reaction r has been triggered and its resolver has not run since.
Outstanding(r) ==
    IF r \in DOMAIN deps THEN bursts[r] > execs[r] ELSE FALSE

\* The resolver of reaction r has run for every burst of triggers.
Served(r) ==
    IF r \in DOMAIN deps THEN bursts[r] = execs[r] ELSE FALSE

\* C20: with the host running every timer task that is due and callbacks
\* that do not call set, every scheduled execution of a resolver
\* eventually runs, the program reaches again and again (and, once the
\* calls have stopped, for good) a state with no execution pending, and a
\* resolver has never run more often than its callFn was called, the call
\* by when included.
C20_Quiescence ==
    /\ \A r \in 1..MaxReactions : Outstanding(r) ~> Served(r)
    /\ []<>(timers = <<>>)
    /\ [](\A r \in DOMAIN deps : execs[r] <= trigs[r])

\* Three triggers of a reaction (when and two sets), served by one
\* execution, and nothing pending.
C20_Witness ==
    /\ deps = << <<"a", "b">> >>
    /\ trigs = <<3>>
    /\ execs = <<1>>
    /\ fired = <<1>>
    /\ last.op = "timer"
    /\ timers = <<>>

\* What instance s shows and holds: what its get returns for every key,
\* its registry, and the flags, pending tasks, trigger counts, runs and
\* invocations of its reactions.
Visible(s) ==
    [gets |-> [k \in Keys |-> get(Of(s), k)],
     registry |-> Of(s).callbacks,
     reactions |-> [r \in {q \in DOMAIN deps : owner[q] = s} |->
                      <<queued[r], Pending(timers, r), trigs[r], execs[r],
                        fired[r], lastArgs[r]>>]]

\* The reactions of instance s.
ReactionsOf(s) == {r \in DOMAIN deps : owner[r] = s}

\* C11: a set or when on one instance, and a timer task of one of its
\* reactions, leaves the other instance as it was: what get returns there,
\* its listeners, and the flags and pending tasks of its reactions; it
\* calls no callFn, runs no resolver and invokes no fn of the other.  A
\* reaction listens only in the registry of its own instance, and a task
\* passes to fn the values of its own instance.
C11_InstanceIsolation ==
    [][\A s \in {1, 2} :
          /\ instance' # s => Visible(s)' = Visible(s)
          /\ \A r \in ReactionsOf(s)' : \A k \in DOMAIN Of(3 - s).callbacks' :
                \A i \in DOMAIN Of(3 - s).callbacks'[k] :
                   Of(3 - s).callbacks'[k][i] # r
          /\ \A r \in ReactionsOf(s)' :
                last'.op = "timer" /\ last'.r = r /\ last'.applied =>
                   lastArgs'[r] = dependencyValues(Of(s), r)']_vars

\* A reaction on "a" in each instance and set("a", 1) on the second: only
\* the second instance's reaction ran with the value, the first reads a as
\* undefined and its reaction has run without invoking fn.
C11_Witness ==
    /\ owner = <<1, 2>>
    /\ deps = << <<"a">>, <<"a">> >>
    /\ get(Of(1), "a") = Undefined
    /\ get(Of(2), "a") = 1
    /\ fired = <<0, 1>>
    /\ execs[1] = 1
    /\ lastArgs[2] = <<1>>
    /\ timers = <<>>

====
